---- MODULE Spec2Model ----
(***************************************************************************)
(* The werewolf game server of src/src/index.ts over its Redis-backed      *)
(* stores (src/src/stores/userStore.ts).                                   *)
(*                                                                         *)
(* The store is one Redis server: every command, and every MULTI block,    *)
(* executes atomically.  A socket handler is an async function: it runs    *)
(* from one await to the next without interruption, and other handlers     *)
(* run while it waits for a reply.  One step of a task below is one such   *)
(* run: the code after the reply of the previous read, with the writes it  *)
(* issues (setUser and setRoom are not awaited; their commands reach the   *)
(* server in issue order) and the single-command read it then awaits.      *)
(* getUsersInRoom is several round trips long (getRoom, SCAN, MULTI of     *)
(* HMGETs), so its read of the users is a step of its own, taken at the    *)
(* point the MULTI executes; the three reads of getRoom are taken at one   *)
(* point.  resetIsAwaiting and resetVoteCount called without await run as  *)
(* tasks of their own.                                                     *)
(*                                                                         *)
(* The fields name and isHost are carried through every write unchanged    *)
(* and read by no handler; they are left out of the records.               *)
(***************************************************************************)
EXTENDS Integers, Sequences, FiniteSets, TLC

\* ---------------------------------------------------------------- bounds
\* ids getId() returns to create and join (one room, three users)
LobbyRoomIds == {"r1"}
UserIdSeq == <<"u1", "u2", "u3">>
\* the ids an event can carry: those, and one more room and one more user
LobbyUserIds == {UserIdSeq[i] : i \in 1..Len(UserIdSeq)}
RoomIds == LobbyRoomIds \cup {"r2"}
UserIds == LobbyUserIds \cup {"u4"}
\* task slots: two socket handlers in flight, each with its detached reset
Slots == {"h1", "h2", "d1", "d2"}
\* the day counter's cap: no event that increments it arrives beyond it
MaxDays == 3
\* the events of one run that may arrive while another task is in flight
MaxOverlaps == 1
\* the events of one run that need not fit the game as the clients play it
MaxStrays == 1

\* ------------------------------------------------------------ constants
HUMAN_WIN == "HumanWin"
WOLVES_WIN == "WolvesWin"
CONTINUE_GAME == "ContinueGame"

Start == "Start"
Discussion == "Discussion"
Voting == "Voting"
VotingResult == "VotingResult"
Night == "Night"
PHASE == {Start, Discussion, Voting, VotingResult, Night}

WereWolf == "WereWolf"
Villager == "Villager"
ROLE == {WereWolf, "FortuneTeller", "Medium", "Hunter", "Maniac", Villager}

\* a Redis nil reply, and JavaScript's null and undefined
Nil == "<nil>"

\* JavaScript truthiness of a string-or-null value
Truthy(v) == v # Nil /\ v # ""

\* ----------------------------------------------------------- converters
mapBooleanToString(value) == IF value THEN "true" ELSE "false"

mapStringToBoolean(value) == IF Truthy(value) THEN value = "true" ELSE FALSE

\* throws on a value outside the enum; the stores only ever hold enum values
getRoleByString(value) == CHOOSE r \in ROLE : r = value

getPhaseByString(value) == CHOOSE p \in PHASE : p = value

\* ioredis sends a null or undefined argument as the empty string
toArg(v) == IF v = Nil THEN "" ELSE v

\* ------------------------------------------------------------- records
\* what HMGET returns for a key that does not exist
NilUserHash ==
  [id |-> Nil, role |-> Nil, isAlive |-> Nil, voteCount |-> 0, isAwaiting |-> Nil]

\* mapUser's undefined
NoUser ==
  [id |-> Nil, role |-> Nil, isAlive |-> FALSE, voteCount |-> 0, isAwaiting |-> FALSE]

mapUser(h) ==
  IF Truthy(h.id)
  THEN [id |-> h.id,
        role |-> IF Truthy(h.role) THEN getRoleByString(h.role) ELSE WereWolf,
        isAlive |-> mapStringToBoolean(h.isAlive),
        voteCount |-> h.voteCount,
        isAwaiting |-> mapStringToBoolean(h.isAwaiting)]
  ELSE NoUser

\* the hash setUser writes
UserHash(user) ==
  [id |-> user.id,
   role |-> toArg(user.role),
   isAlive |-> mapBooleanToString(user.isAlive),
   voteCount |-> user.voteCount,
   isAwaiting |-> mapBooleanToString(user.isAwaiting)]

ZeroRule ==
  [wereWolves |-> 0, fortuneTellers |-> 0, mediumns |-> 0,
   hunters |-> 0, maniacs |-> 0, villagers |-> 0]

\* the keys room:<id>, userIds:<id> and rule:<id> of a room that does not exist
NilRoomKeys ==
  [id |-> Nil, inProgress |-> Nil, days |-> 0, phase |-> Nil,
   isFinalVoting |-> Nil, lastLynched |-> Nil, lastMurdered |-> Nil,
   lastHunted |-> Nil, userIds |-> <<>>, rule |-> ZeroRule]

\* mapRoom's undefined
NoRoom ==
  [id |-> Nil, rule |-> ZeroRule, userIds |-> <<>>, inProgress |-> FALSE,
   days |-> 0, phase |-> Nil, isFinalVoting |-> FALSE, lastLynched |-> Nil,
   lastMurdered |-> Nil, lastHunted |-> Nil]

mapRule(h) == h

Reverse(s) == [i \in 1..Len(s) |-> s[Len(s) + 1 - i]]

Range(s) == {s[i] : i \in 1..Len(s)}

\* the Rule a client sends with create: a wolf, a hunter and a villager, or a
\* multiset one short of three members
Rules ==
  {[ZeroRule EXCEPT !.wereWolves = 1, !.hunters = 1, !.villagers = 1],
   [ZeroRule EXCEPT !.wereWolves = 1, !.villagers = 1]}

\* ------------------------------------------------------------ variables
VARIABLES
  rooms,     \* Redis: the keys room:<id>, userIds:<id>, rule:<id> per room id
  users,     \* Redis: the hash user:<id> per user id
  tasks,     \* the async functions in flight, with their local variables
  out,       \* the messages emitted by the step just taken
  gameOver,  \* history: the rooms for which a gameSet message was emitted
  overlaps,  \* history: the events that arrived while a task was in flight
  strays,    \* history: the events that arrived and did not fit the game
  signalled  \* history: per room, the users whose ready signal of the room's
             \* phase has arrived since the phase was written

vars == <<rooms, users, tasks, out, gameOver, overlaps, strays, signalled>>

\* --------------------------------------------------------------- stores
\* RedisRoomStore.getRoom
getRoom(id) ==
  LET h == rooms[id] IN
  IF Truthy(h.id)
  THEN [id |-> h.id,
        rule |-> mapRule(h.rule),
        userIds |-> h.userIds,
        inProgress |-> mapStringToBoolean(h.inProgress),
        days |-> h.days,
        phase |-> IF Truthy(h.phase) THEN getPhaseByString(h.phase) ELSE Discussion,
        isFinalVoting |-> mapStringToBoolean(h.isFinalVoting),
        lastLynched |-> h.lastLynched,
        lastMurdered |-> h.lastMurdered,
        lastHunted |-> h.lastHunted]
  ELSE NoRoom

\* the three keys setRoom's MULTI writes; LPUSH puts each id at the head
RoomKeys(room) ==
  [id |-> room.id,
   inProgress |-> mapBooleanToString(room.inProgress),
   days |-> room.days,
   phase |-> getPhaseByString(room.phase),
   isFinalVoting |-> mapBooleanToString(room.isFinalVoting),
   lastLynched |-> toArg(room.lastLynched),
   lastMurdered |-> toArg(room.lastMurdered),
   lastHunted |-> toArg(room.lastHunted),
   userIds |-> Reverse(room.userIds),
   rule |-> room.rule]

\* RedisRoomStore.setRoom on the store rs.  LPUSH without a value is an
\* arity error, which makes EXEC discard the whole MULTI.
setRoom(rs, room) ==
  IF room.userIds = <<>> THEN rs ELSE [rs EXCEPT ![room.id] = RoomKeys(room)]

\* RedisUserStore.getUser
getUser(id) == mapUser(users[id])

\* RedisUserStore.setUser on the store us
setUser(us, user) == [us EXCEPT ![user.id] = UserHash(user)]

\* setUser for every user of a set (distinct ids, so the order is immaterial)
RECURSIVE setUsers(_, _)
setUsers(us, set) ==
  IF set = {} THEN us
  ELSE LET v == CHOOSE x \in set : TRUE IN setUsers(setUser(us, v), set \ {v})

\* RedisUserStore.getUsers on the store us: SCAN finds the keys that exist
getUsers(us) == {mapUser(us[k]) : k \in {k \in UserIds : Truthy(us[k].id)}}

\* ------------------------------------------------------------- helpers
\* getUsersInRoom with the user store us
UsersInRoom(us, roomId) ==
  LET room == getRoom(roomId) IN
  IF room # NoRoom
  THEN {user \in getUsers(us) : user.id \in Range(room.userIds)}
  ELSE {}

getUsersInRoom(roomId) == UsersInRoom(users, roomId)

\* on the array getUsersInRoom returned
\* a faulty checkAwaitStatus that waits for the dead members too
checkAwaitStatusAll(us) ==
  Cardinality(us) = Cardinality({v \in us : v.isAwaiting})

checkAwaitStatus(us) ==
  LET aliveUsers == {v \in us : v.isAlive}
      awaitingUsers == {v \in aliveUsers : v.isAwaiting}
  IN Cardinality(aliveUsers) = Cardinality(awaitingUsers)

\* the users resetIsAwaiting writes back
resetIsAwaiting(us) == {[v EXCEPT !.isAwaiting = FALSE] : v \in us}

\* a faulty resetVoteCount that leaves the counters as they are
resetVoteCountKeep(us) == us

\* the users resetVoteCount writes back
resetVoteCount(us) == {[v EXCEPT !.voteCount = 0] : v \in us}

\* Math.max() of no argument: -Infinity, below every vote count
MinusInfinity == -1

MathMax(S) == IF S = {} THEN MinusInfinity ELSE CHOOSE m \in S : \A x \in S : x <= m

\* a faulty getSuspects that looks at the living only
getSuspectsAlive(us) ==
  LET living == {v \in us : v.isAlive}
      max == MathMax({v.voteCount : v \in living})
  IN {v.id : v \in {v \in living : v.voteCount = max}}

\* on the array getUsersInRoom returned
getSuspects(us) ==
  LET max == MathMax({v.voteCount : v \in us})
      suspects == {v \in us : v.voteCount = max}
  IN {v.id : v \in suspects}

\* a faulty judge that never ends the game
judgeNeverEnds(room, us) == CONTINUE_GAME

\* a faulty judge for which the wolves need a majority
judgeStrict(room, us) ==
  LET aliveWolves == {v \in us : v.isAlive /\ v.role = WereWolf}
      aliveHumans == {v \in us : v.isAlive /\ v.role # WereWolf}
  IN IF Cardinality(aliveWolves) = 0 THEN HUMAN_WIN
     ELSE IF Cardinality(aliveWolves) > Cardinality(aliveHumans) THEN WOLVES_WIN
     ELSE CONTINUE_GAME

\* on the room getRoom returned and the array getUsersInRoom returned
judge(room, us) ==
  IF room # NoRoom
  THEN LET aliveWolves == {v \in us : v.isAlive /\ v.role = WereWolf}
           aliveHumans == {v \in us : v.isAlive /\ v.role # WereWolf}
       IN IF Cardinality(aliveWolves) = 0 THEN HUMAN_WIN
          ELSE IF Cardinality(aliveWolves) >= Cardinality(aliveHumans) THEN WOLVES_WIN
          ELSE CONTINUE_GAME
  ELSE CONTINUE_GAME

\* ---------------------------------------------------------------- tasks
ReadyKinds == {"awaitStart", "awaitDiscussion", "awaitVoting", "awaitVotingResult", "awaitNight"}

\* the ready signal a client sends in each phase
ReadyKindOf(phase) ==
  CASE phase = Start -> "awaitStart"
    [] phase = Discussion -> "awaitDiscussion"
    [] phase = Voting -> "awaitVoting"
    [] phase = VotingResult -> "awaitVotingResult"
    [] phase = Night -> "awaitNight"
    [] OTHER -> "none"

IdleTask ==
  [kind |-> "idle", pc |-> "idle", roomId |-> Nil, userId |-> Nil,
   room |-> NoRoom, user |-> NoUser, us |-> {}, suspects |-> {},
   status |-> Nil, choices |-> <<>>, i |-> 0, prot |-> Nil]

HandlerSlots == {"h1", "h2"}
DetachedSlots == Slots \ HandlerSlots

Live(S) == {t \in S : tasks[t].kind # "idle"}

FreeHandler == IF tasks["h1"].kind = "idle" THEN "h1" ELSE "h2"
FreeDetached == IF tasks["d1"].kind = "idle" THEN "d1" ELSE "d2"

\* A new event is taken up when a handler slot is free and every handler in
\* flight keeps a slot for the reset it may detach; with one, handlers run
\* one at a time (the next event arrives when nothing is in flight).
CanArrive(one) ==
  IF one THEN Live(Slots) = {}
  ELSE /\ Cardinality(Live(Slots)) + 1 <= Cardinality(DetachedSlots)
       /\ Live(Slots) # {} => overlaps < MaxOverlaps

Overlapped == IF Live(Slots) # {} THEN overlaps + 1 ELSE overlaps

Finish(t) == [tasks EXCEPT ![t] = IdleTask]

\* the handler ends having called reset(room) without await
FinishDetaching(t, reset) ==
  [tasks EXCEPT ![t] = IdleTask,
                ![FreeDetached] = [IdleTask EXCEPT !.kind = reset, !.pc = "read",
                                                   !.roomId = tasks[t].room.id]]

\* the signals that have arrived, after the arrival of an event: the ready
\* signals of the phase of a game that is not over
Signal(kind, r, u) ==
  IF /\ kind \in ReadyKinds
     /\ Truthy(rooms[r].id)
     /\ kind = ReadyKindOf(rooms[r].phase)
     /\ r \notin gameOver
  THEN [signalled EXCEPT ![r] = @ \cup {u}]
  ELSE signalled

\* the signals that have arrived, after a step of a task: those of a room whose
\* stored phase the step changes are of the phase before, and a game that is
\* set has no barrier left
Signalled ==
  [r \in RoomIds |->
     IF rooms'[r].phase # rooms[r].phase \/ r \in gameOver' THEN {} ELSE signalled[r]]

Init ==
  /\ rooms = [r \in RoomIds |-> NilRoomKeys]
  /\ users = [u \in UserIds |-> NilUserHash]
  /\ tasks = [t \in Slots |-> IdleTask]
  /\ out = {}
  /\ gameOver = {}
  /\ overlaps = 0
  /\ strays = 0
  /\ signalled = [r \in RoomIds |-> {}]

\* ---------------------------------------------------------- the clients
Members(r) == Range(rooms[r].userIds)

AliveMembers(r) == {k \in Members(r) : users[k].isAlive = "true"}

AliveWithRole(r, role) == {k \in AliveMembers(r) : mapUser(users[k]).role = role}

RECURSIVE VotesCast(_)
VotesCast(S) ==
  IF S = {} THEN 0
  ELSE LET k == CHOOSE x \in S : TRUE IN users[k].voteCount + VotesCast(S \ {k})

\* the resetIsAwaiting an advance of the room started without await has not
\* finished: the phase broadcast is out, the flags of the last barrier are not
\* yet cleared
ResetPending(r) ==
  \E d \in DetachedSlots : tasks[d].kind = "resetIsAwaiting" /\ tasks[d].roomId = r

\* The event fits the game as the clients play it: the lobby is joined and
\* left and the roles are drawn before the start, every member signals ready
\* once per phase for the phase the room is in, every living member casts at
\* most one vote in Voting, every living wolf at most one attack and the
\* hunter one protection per Night.
Fits(kind, r, u) ==
  /\ Truthy(rooms[r].id)
  /\ CASE kind = "join" -> rooms[r].phase = Start /\ rooms[r].days = 0
       [] kind = "choice" -> rooms[r].phase = Start /\ rooms[r].days = 0
       [] kind = "leave" -> rooms[r].phase = Start /\ u \in Members(r)
       [] kind = "vote" ->
            /\ rooms[r].phase = Voting
            /\ u \in AliveMembers(r)
            /\ VotesCast(Members(r)) < Cardinality(AliveMembers(r))
       [] kind = "murder" ->
            /\ rooms[r].phase = Night
            /\ u \in AliveMembers(r)
            /\ VotesCast(Members(r)) < Cardinality(AliveWithRole(r, WereWolf))
       [] kind = "hunt" ->
            /\ rooms[r].phase = Night
            /\ u \in AliveMembers(r)
            /\ AliveWithRole(r, "Hunter") # {}
            /\ rooms[r].lastHunted = ""
       [] OTHER ->
            /\ kind = ReadyKindOf(rooms[r].phase)
            /\ kind = "awaitStart" => rooms[r].days > 0
            /\ u \in Members(r)
            /\ users[u].isAwaiting = "false" \/ ResetPending(r)

\* strict: the clients play the game and stop when it is over; otherwise
\* they play on, and once it is over the members' ready signals are of any phase
Sent(strict, kind, r, u) ==
  IF strict THEN Fits(kind, r, u) /\ r \notin gameOver
  ELSE \/ Fits(kind, r, u)
       \/ /\ r \in gameOver
          /\ kind \in ReadyKinds
          /\ u \in Members(r)
          /\ users[u].isAwaiting = "false"

\* The game about to start: the state Spec reaches by create with the rule of
\* three roles, two joins and one choice that drew the given roles for the
\* members in the stored order.
GameInit(roles) ==
  /\ rooms = [r \in RoomIds |->
       IF r = "r1"
       THEN [id |-> "r1", inProgress |-> "false", days |-> 1, phase |-> Start,
             isFinalVoting |-> "false", lastLynched |-> "", lastMurdered |-> "",
             lastHunted |-> "", userIds |-> <<"u2", "u1", "u3">>,
             rule |-> [ZeroRule EXCEPT !.wereWolves = 1, !.hunters = 1, !.villagers = 1]]
       ELSE NilRoomKeys]
  /\ users = [u \in UserIds |->
       IF u \notin LobbyUserIds THEN NilUserHash ELSE
       [id |-> u,
        role |-> roles[CHOOSE i \in 1..3 : <<"u3", "u1", "u2">>[i] = u],
        isAlive |-> "true", voteCount |-> 0, isAwaiting |-> "false"]]
  /\ tasks = [t \in Slots |-> IdleTask]
  /\ out = {}
  /\ gameOver = {}
  /\ overlaps = 0
  /\ strays = 0
  /\ signalled = [r \in RoomIds |-> {}]

\* ------------------------------------------------- create, join, leave
\* the ids getId() has given out: stored users and those of joins in flight
UsedUserIds ==
  {k \in UserIds : Truthy(users[k].id)}
    \cup {tasks[t].userId : t \in {t \in HandlerSlots : tasks[t].kind = "join"}}

\* the next id getId() gives out (ids are random; only their being new matters)
FreshUserIds == LobbyUserIds \ UsedUserIds

FreshUserId ==
  UserIdSeq[CHOOSE i \in 1..Len(UserIdSeq) :
              /\ UserIdSeq[i] \notin UsedUserIds
              /\ \A j \in 1..(i - 1) : UserIdSeq[j] \in UsedUserIds]

\* the User object a client sends with create and join
NewUser(id) ==
  [id |-> id, role |-> Villager, isAlive |-> TRUE, voteCount |-> 0, isAwaiting |-> FALSE]

\* the Room object a client sends with create, after the handler set its id
\* and pushed the host
NewRoom(id, rule, hostId) ==
  [id |-> id, rule |-> rule, userIds |-> <<hostId>>, inProgress |-> FALSE,
   days |-> 0, phase |-> Start, isFinalVoting |-> FALSE, lastLynched |-> Nil,
   lastMurdered |-> Nil, lastHunted |-> Nil]

\* socket.on('create'): no await, so the handler is one step
Create(one, r, rule) ==
  /\ one => Live(Slots) = {}
  /\ ~Truthy(rooms[r].id)
  /\ FreshUserIds # {}
  /\ users' = setUser(users, NewUser(FreshUserId))
  /\ rooms' = setRoom(rooms, NewRoom(r, rule, FreshUserId))
  /\ out' = {<<"create", r>>}
  /\ UNCHANGED <<tasks, gameOver, overlaps, strays>>
  /\ signalled' = Signalled

\* socket.on('join') up to its await of getRoom
JoinArrive(one, strict, r) ==
  /\ CanArrive(one)
  /\ Sent(strict, "join", r, Nil)
  /\ FreshUserIds # {}
  /\ tasks' = [tasks EXCEPT ![FreeHandler] =
                 [IdleTask EXCEPT !.kind = "join", !.pc = "gotRoom", !.roomId = r,
                                  !.userId = FreshUserId, !.room = getRoom(r)]]
  /\ overlaps' = Overlapped
  /\ strays' = strays
  /\ out' = {}
  /\ UNCHANGED <<rooms, users, gameOver, signalled>>

\* socket.on('join') after getRoom
JoinStep(t) ==
  /\ tasks[t].kind = "join" /\ tasks[t].pc = "gotRoom"
  /\ LET room == tasks[t].room
         room2 == [room EXCEPT !.userIds = Append(@, tasks[t].userId)]
     IN IF room # NoRoom /\ ~room.inProgress
        THEN /\ rooms' = setRoom(rooms, room2)
             /\ users' = setUser(users, NewUser(tasks[t].userId))
             /\ out' = {<<"join", room.id>>, <<"onMemberChanged", room.id>>}
        ELSE /\ out' = {}
             /\ UNCHANGED <<rooms, users>>
  /\ tasks' = Finish(t)
  /\ UNCHANGED <<gameOver, overlaps, strays>>
  /\ signalled' = Signalled

\* an event that carries (roomId, userId), up to its await of getRoom
Arrive(one, strict, kind, r, u) ==
  /\ CanArrive(one)
  /\ Sent(strict, kind, r, u)
  /\ kind \in {"awaitStart", "awaitNight", "choice"} => rooms[r].days < MaxDays
  /\ tasks' = [tasks EXCEPT ![FreeHandler] =
                 [IdleTask EXCEPT !.kind = kind, !.pc = "gotRoom", !.roomId = r,
                                  !.userId = u, !.room = getRoom(r)]]
  /\ overlaps' = Overlapped
  /\ strays' = strays
  /\ signalled' = Signal(kind, r, u)
  /\ out' = {}
  /\ UNCHANGED <<rooms, users, gameOver>>

\* socket.on('leave') after getRoom
LeaveStep(t) ==
  /\ tasks[t].kind = "leave" /\ tasks[t].pc = "gotRoom"
  /\ LET room == tasks[t].room
         Keep(v) == v # tasks[t].userId
         room2 == [room EXCEPT !.userIds = SelectSeq(@, Keep)]
     IN IF room # NoRoom
        THEN /\ rooms' = setRoom(rooms, room2)
             /\ out' = {<<"leave", room.id>>, <<"onMemberChanged", room.id>>}
        ELSE /\ out' = {}
             /\ UNCHANGED rooms
  /\ tasks' = Finish(t)
  /\ UNCHANGED <<users, gameOver, overlaps, strays>>
  /\ signalled' = Signalled

\* ---------------------------------------------------------------- choice
RoleOrder == <<WereWolf, "FortuneTeller", "Medium", "Hunter", "Maniac", Villager>>

RuleCount(rule, role) ==
  CASE role = WereWolf -> rule.wereWolves
    [] role = "FortuneTeller" -> rule.fortuneTellers
    [] role = "Medium" -> rule.mediumns
    [] role = "Hunter" -> rule.hunters
    [] role = "Maniac" -> rule.maniacs
    [] OTHER -> rule.villagers

\* the choices array before the shuffle: each role pushed count times, in order
RECURSIVE Choices(_, _)
Choices(rule, k) ==
  IF k > Len(RoleOrder) THEN <<>>
  ELSE [i \in 1..RuleCount(rule, RoleOrder[k]) |-> RoleOrder[k]] \o Choices(rule, k + 1)

\* a faulty shuffle that copies instead of swapping
ShufflesCopy(rule) ==
  LET c == Choices(rule, 1) IN
  {[i \in 1..Len(c) |-> c[f[i]]] : f \in [1..Len(c) -> 1..Len(c)]}

\* every outcome of the Fisher-Yates shuffle of the choices array
Shuffles(rule) ==
  LET c == Choices(rule, 1) IN
  {[i \in 1..Len(c) |-> c[f[i]]] : f \in Permutations(1..Len(c))}

\* socket.on('choice') after getRoom: the shuffle, then the first getUser
ChoiceInit(t) ==
  /\ tasks[t].kind = "choice" /\ tasks[t].pc = "gotRoom"
  /\ LET room == tasks[t].room IN
     IF room = NoRoom
     THEN /\ tasks' = Finish(t)
          /\ out' = {}
          /\ UNCHANGED rooms
     ELSE \E choices \in Shuffles(room.rule) :
            IF Len(room.userIds) = 0
            THEN /\ rooms' = setRoom(rooms, [room EXCEPT !.days = @ + 1])
                 /\ tasks' = Finish(t)
                 /\ out' = {<<"choice", room.id>>}
            ELSE /\ tasks' = [tasks EXCEPT ![t].pc = "loop", ![t].choices = choices,
                                           ![t].i = 1,
                                           ![t].user = getUser(room.userIds[1])]
                 /\ out' = {}
                 /\ UNCHANGED rooms
  /\ UNCHANGED <<users, gameOver, overlaps, strays>>
  /\ signalled' = Signalled

\* one pass of the assignment loop after getUser, and what follows the loop
ChoiceLoop(t) ==
  /\ tasks[t].kind = "choice" /\ tasks[t].pc = "loop"
  /\ LET room == tasks[t].room
         i == tasks[t].i
         user == tasks[t].user
         role == IF i <= Len(tasks[t].choices) THEN tasks[t].choices[i] ELSE Nil
         users2 == IF user # NoUser THEN setUser(users, [user EXCEPT !.role = role])
                   ELSE users
     IN /\ users' = users2
        /\ IF i < Len(room.userIds)
           THEN /\ tasks' = [tasks EXCEPT ![t].i = i + 1,
                                          ![t].user = mapUser(users2[room.userIds[i + 1]])]
                /\ out' = {}
                /\ UNCHANGED rooms
           ELSE /\ rooms' = setRoom(rooms, [room EXCEPT !.days = @ + 1])
                /\ tasks' = Finish(t)
                /\ out' = {<<"choice", room.id>>}
  /\ UNCHANGED <<gameOver, overlaps, strays>>
  /\ signalled' = Signalled

\* ---------------------------------------------------- vote, murder, hunt
\* after getRoom: the room-not-found branch, or getUser
GetUserStep(t) ==
  /\ tasks[t].kind \in {"vote", "murder", "hunt"} \cup ReadyKinds
  /\ tasks[t].pc = "gotRoom"
  /\ tasks' = IF tasks[t].room = NoRoom THEN Finish(t)
              ELSE [tasks EXCEPT ![t].pc = "gotUser", ![t].user = getUser(tasks[t].userId)]
  /\ out' = {}
  /\ UNCHANGED <<rooms, users, gameOver, overlaps, strays>>
  /\ signalled' = Signalled

\* socket.on('vote') and socket.on('murder') after getUser
VoteStep(t) ==
  /\ tasks[t].kind \in {"vote", "murder"} /\ tasks[t].pc = "gotUser"
  /\ LET user == tasks[t].user IN
     IF user # NoUser
     THEN /\ users' = setUser(users, [user EXCEPT !.voteCount = @ + 1])
          /\ out' = {<<tasks[t].kind, tasks[t].room.id>>}
     ELSE /\ out' = {}
          /\ UNCHANGED users
  /\ tasks' = Finish(t)
  /\ UNCHANGED <<rooms, gameOver, overlaps, strays>>
  /\ signalled' = Signalled

\* socket.on('hunt') after getUser
HuntStep(t) ==
  /\ tasks[t].kind = "hunt" /\ tasks[t].pc = "gotUser"
  /\ LET user == tasks[t].user IN
     IF user # NoUser
     THEN /\ rooms' = setRoom(rooms, [tasks[t].room EXCEPT !.lastHunted = user.id])
          /\ out' = {<<"hunt", tasks[t].room.id>>}
     ELSE /\ out' = {}
          /\ UNCHANGED rooms
  /\ tasks' = Finish(t)
  /\ UNCHANGED <<users, gameOver, overlaps, strays>>
  /\ signalled' = Signalled

\* -------------------------------------------------------- ready signals
\* a ready handler after getUser: the flag is set and written
MarkStep(t) ==
  /\ tasks[t].kind \in ReadyKinds /\ tasks[t].pc = "gotUser"
  /\ LET user == tasks[t].user IN
     IF user # NoUser
     THEN /\ users' = setUser(users, [user EXCEPT !.isAwaiting = TRUE])
          /\ tasks' = [tasks EXCEPT ![t].pc = "check"]
     ELSE /\ tasks' = Finish(t)
          /\ UNCHANGED users
  /\ out' = {}
  /\ UNCHANGED <<rooms, gameOver, overlaps, strays>>
  /\ signalled' = Signalled

\* checkAwaitStatus: its read of the users, and the branch on its result
CheckStep(t) ==
  /\ tasks[t].kind \in ReadyKinds /\ tasks[t].pc = "check"
  /\ IF checkAwaitStatus(getUsersInRoom(tasks[t].room.id))
     THEN /\ tasks' = [tasks EXCEPT
                 ![t].pc = IF tasks[t].kind \in {"awaitStart", "awaitDiscussion"}
                           THEN "advance" ELSE "resetRead",
                 ![t].prot = IF tasks[t].kind = "awaitNight"
                             THEN rooms[tasks[t].room.id].lastHunted ELSE Nil]
     ELSE /\ tasks' = Finish(t)
  /\ out' = {}
  /\ UNCHANGED <<rooms, users, gameOver, overlaps, strays>>
  /\ signalled' = Signalled

\* socket.on('awaitStart') once the barrier is complete
AdvanceStart(t) ==
  /\ tasks[t].kind = "awaitStart" /\ tasks[t].pc = "advance"
  /\ rooms' = setRoom(rooms, [tasks[t].room EXCEPT !.inProgress = TRUE, !.days = @ + 1,
                                                   !.phase = Discussion])
  /\ tasks' = FinishDetaching(t, "resetIsAwaiting")
  /\ out' = {<<"awaitStart", tasks[t].room.id>>}
  /\ UNCHANGED <<users, gameOver, overlaps, strays>>
  /\ signalled' = Signalled

\* a faulty awaitDiscussion that leaves lastLynched and lastMurdered alone
AdvanceDiscussionKeep(t) ==
  /\ tasks[t].kind = "awaitDiscussion" /\ tasks[t].pc = "advance"
  /\ rooms' = setRoom(rooms, [tasks[t].room EXCEPT !.phase = Voting])
  /\ tasks' = FinishDetaching(t, "resetIsAwaiting")
  /\ out' = {<<"awaitDiscussion", tasks[t].room.id>>}
  /\ UNCHANGED <<users, gameOver, overlaps, strays>>
  /\ signalled' = Signalled

\* a faulty awaitDiscussion that starts a new day
AdvanceDiscussionNextDay(t) ==
  /\ tasks[t].kind = "awaitDiscussion" /\ tasks[t].pc = "advance"
  /\ rooms' = setRoom(rooms, [tasks[t].room EXCEPT !.lastLynched = Nil,
                                                   !.lastMurdered = Nil,
                                                   !.days = @ + 1,
                                                   !.phase = Voting])
  /\ tasks' = FinishDetaching(t, "resetIsAwaiting")
  /\ out' = {<<"awaitDiscussion", tasks[t].room.id>>}
  /\ UNCHANGED <<users, gameOver, overlaps, strays>>
  /\ signalled' = Signalled

\* socket.on('awaitDiscussion') once the barrier is complete
AdvanceDiscussion(t) ==
  /\ tasks[t].kind = "awaitDiscussion" /\ tasks[t].pc = "advance"
  /\ rooms' = setRoom(rooms, [tasks[t].room EXCEPT !.lastLynched = Nil,
                                                   !.lastMurdered = Nil,
                                                   !.phase = Voting])
  /\ tasks' = FinishDetaching(t, "resetIsAwaiting")
  /\ out' = {<<"awaitDiscussion", tasks[t].room.id>>}
  /\ UNCHANGED <<users, gameOver, overlaps, strays>>
  /\ signalled' = Signalled

\* resetIsAwaiting and resetVoteCount: the read of getUsersInRoom
ResetRead(t) ==
  /\ \/ tasks[t].kind \in ReadyKinds /\ tasks[t].pc = "resetRead"
     \/ tasks[t].kind \in {"resetIsAwaiting", "resetVoteCount"} /\ tasks[t].pc = "read"
  /\ tasks' = [tasks EXCEPT ![t].pc = IF tasks[t].pc = "read" THEN "write" ELSE "resetWrite",
                            ![t].us = getUsersInRoom(tasks[t].roomId)]
  /\ out' = {}
  /\ UNCHANGED <<rooms, users, gameOver, overlaps, strays>>
  /\ signalled' = Signalled

\* a detached resetIsAwaiting or resetVoteCount: every user read is written back
DetachedWrite(t) ==
  /\ tasks[t].kind \in {"resetIsAwaiting", "resetVoteCount"} /\ tasks[t].pc = "write"
  /\ users' = setUsers(users, IF tasks[t].kind = "resetIsAwaiting"
                              THEN resetIsAwaiting(tasks[t].us)
                              ELSE resetVoteCount(tasks[t].us))
  /\ tasks' = Finish(t)
  /\ out' = {}
  /\ UNCHANGED <<rooms, gameOver, overlaps, strays>>
  /\ signalled' = Signalled

\* the awaited resetIsAwaiting's writes, then the call of getSuspects
\* (awaitVoting, awaitNight)
ResetWrite(t) ==
  /\ tasks[t].kind \in {"awaitVoting", "awaitNight"} /\ tasks[t].pc = "resetWrite"
  /\ users' = setUsers(users, resetIsAwaiting(tasks[t].us))
  /\ tasks' = [tasks EXCEPT ![t].pc = "suspects", ![t].us = {}]
  /\ out' = {}
  /\ UNCHANGED <<rooms, gameOver, overlaps, strays>>
  /\ signalled' = Signalled

\* socket.on('awaitVotingResult'): the awaited resetIsAwaiting's writes, then
\* the final-voting branch or the call of judge
ResetWriteVotingResult(t) ==
  /\ tasks[t].kind = "awaitVotingResult" /\ tasks[t].pc = "resetWrite"
  /\ users' = setUsers(users, resetIsAwaiting(tasks[t].us))
  /\ IF tasks[t].room.isFinalVoting
     THEN /\ rooms' = setRoom(rooms, [tasks[t].room EXCEPT !.phase = Discussion])
          /\ tasks' = Finish(t)
          /\ out' = {<<"awaitVotingResult", tasks[t].room.id>>}
     ELSE /\ tasks' = [tasks EXCEPT ![t].pc = "judge", ![t].us = {}]
          /\ out' = {}
          /\ UNCHANGED rooms
  /\ UNCHANGED <<gameOver, overlaps, strays>>
  /\ signalled' = Signalled

\* getSuspects: its read of the users
SuspectsRead(t) ==
  /\ tasks[t].kind \in {"awaitVoting", "awaitNight"} /\ tasks[t].pc = "suspects"
  /\ LET suspects == getSuspects(getUsersInRoom(tasks[t].room.id)) IN
     /\ tasks' = [tasks EXCEPT ![t].pc = "tally", ![t].suspects = suspects]
  /\ out' = {}
  /\ UNCHANGED <<rooms, users, gameOver, overlaps, strays>>
  /\ signalled' = Signalled

TheSuspect(t) == CHOOSE id \in tasks[t].suspects : TRUE

\* faulty tie branches: final voting is never entered, or never left
tieBranchNever(room) == [room EXCEPT !.isFinalVoting = FALSE]

tieBranchAlways(room) == [room EXCEPT !.isFinalVoting = TRUE]

\* the tie branches of awaitVoting: a first tie enters final voting, a tie in
\* final voting leaves it
tieBranch(room) == [room EXCEPT !.isFinalVoting = IF ~room.isFinalVoting THEN TRUE ELSE FALSE]

\* socket.on('awaitVoting') after getSuspects: getUser of a single suspect, or
\* the tie branches and the phase write
TallyVoting(t) ==
  /\ tasks[t].kind = "awaitVoting" /\ tasks[t].pc = "tally"
  /\ IF Cardinality(tasks[t].suspects) = 1
     THEN /\ tasks' = [tasks EXCEPT ![t].pc = "lynch", ![t].user = getUser(TheSuspect(t))]
          /\ out' = {}
          /\ UNCHANGED rooms
     ELSE LET room2 == tieBranch(tasks[t].room)
              room3 == [room2 EXCEPT !.phase = VotingResult]
          IN /\ rooms' = setRoom(setRoom(rooms, room2), room3)
             /\ tasks' = FinishDetaching(t, "resetVoteCount")
             /\ out' = {<<"awaitVoting", tasks[t].room.id>>}
  /\ UNCHANGED <<users, gameOver, overlaps, strays>>
  /\ signalled' = Signalled

\* socket.on('awaitVoting'): the lynch of the single suspect and the phase write
Lynch(t) ==
  /\ tasks[t].kind = "awaitVoting" /\ tasks[t].pc = "lynch"
  /\ LET user == tasks[t].user
         room2 == IF user # NoUser
                  THEN [tasks[t].room EXCEPT !.lastLynched = TheSuspect(t),
                                             !.isFinalVoting = FALSE]
                  ELSE tasks[t].room
         room3 == [room2 EXCEPT !.phase = VotingResult]
     IN /\ users' = IF user # NoUser THEN setUser(users, [user EXCEPT !.isAlive = FALSE])
                    ELSE users
        /\ rooms' = setRoom(setRoom(rooms, room2), room3)
        /\ tasks' = IF user # NoUser THEN FinishDetaching(t, "resetVoteCount") ELSE Finish(t)
  /\ out' = {<<"awaitVoting", tasks[t].room.id>>}
  /\ UNCHANGED <<gameOver, overlaps, strays>>
  /\ signalled' = Signalled

\* a faulty awaitNight that attacks one of the suspects of a tie
TallyNightOne(t) ==
  /\ tasks[t].kind = "awaitNight" /\ tasks[t].pc = "tally"
  /\ tasks' = IF tasks[t].suspects # {}
              THEN [tasks EXCEPT ![t].pc = "attack", ![t].user = getUser(TheSuspect(t))]
              ELSE [tasks EXCEPT ![t].pc = "judge"]
  /\ out' = {}
  /\ UNCHANGED <<rooms, users, gameOver, overlaps, strays>>
  /\ signalled' = Signalled

\* socket.on('awaitNight') after getSuspects: getUser of a single suspect, or
\* straight on to judge
TallyNight(t) ==
  /\ tasks[t].kind = "awaitNight" /\ tasks[t].pc = "tally"
  /\ tasks' = IF Cardinality(tasks[t].suspects) = 1
              THEN [tasks EXCEPT ![t].pc = "attack", ![t].user = getUser(TheSuspect(t))]
              ELSE [tasks EXCEPT ![t].pc = "judge"]
  /\ out' = {}
  /\ UNCHANGED <<rooms, users, gameOver, overlaps, strays>>
  /\ signalled' = Signalled

\* socket.on('awaitNight'): the attack on the single suspect, unless it is the
\* lastHunted of the room as this handler read it
Attack(t) ==
  /\ tasks[t].kind = "awaitNight" /\ tasks[t].pc = "attack"
  /\ LET user == tasks[t].user
         room2 == [tasks[t].room EXCEPT !.lastMurdered = TheSuspect(t)]
     IN IF user # NoUser /\ user.id # tasks[t].room.lastHunted
        THEN /\ users' = setUser(users, [user EXCEPT !.isAlive = FALSE])
             /\ rooms' = setRoom(rooms, room2)
             /\ tasks' = [tasks EXCEPT ![t].pc = "judge", ![t].room = room2]
        ELSE /\ tasks' = [tasks EXCEPT ![t].pc = "judge"]
             /\ UNCHANGED <<rooms, users>>
  /\ out' = {}
  /\ UNCHANGED <<gameOver, overlaps, strays>>
  /\ signalled' = Signalled

\* judge: its reads of the room and of the users
JudgeRead(t) ==
  /\ tasks[t].kind \in {"awaitVotingResult", "awaitNight"} /\ tasks[t].pc = "judge"
  /\ LET status == judge(getRoom(tasks[t].roomId), getUsersInRoom(tasks[t].roomId)) IN
     /\ tasks' = [tasks EXCEPT ![t].pc = "judged", ![t].status = status]
  /\ out' = {}
  /\ UNCHANGED <<rooms, users, gameOver, overlaps, strays>>
  /\ signalled' = Signalled

\* socket.on('awaitVotingResult') after judge
JudgedVotingResult(t) ==
  /\ tasks[t].kind = "awaitVotingResult" /\ tasks[t].pc = "judged"
  /\ IF tasks[t].status \in {HUMAN_WIN, WOLVES_WIN}
     THEN /\ out' = {<<"gameSet", tasks[t].room.id>>}
          /\ gameOver' = gameOver \cup {tasks[t].room.id}
          /\ UNCHANGED rooms
     ELSE /\ rooms' = setRoom(rooms, [tasks[t].room EXCEPT !.phase = Night])
          /\ out' = {<<"awaitVotingResult", tasks[t].room.id>>}
          /\ UNCHANGED gameOver
  /\ tasks' = Finish(t)
  /\ UNCHANGED <<users, overlaps, strays>>
  /\ signalled' = Signalled

\* socket.on('awaitNight') after judge
JudgedNight(t) ==
  /\ tasks[t].kind = "awaitNight" /\ tasks[t].pc = "judged"
  /\ IF tasks[t].status \in {HUMAN_WIN, WOLVES_WIN}
     THEN /\ out' = {<<"gameSet", tasks[t].room.id>>}
          /\ gameOver' = gameOver \cup {tasks[t].room.id}
          /\ tasks' = Finish(t)
          /\ UNCHANGED rooms
     ELSE /\ rooms' = setRoom(rooms, [tasks[t].room EXCEPT !.lastHunted = Nil,
                                                           !.days = @ + 1,
                                                           !.phase = Discussion])
          /\ out' = {<<"awaitNight", tasks[t].room.id>>}
          /\ tasks' = FinishDetaching(t, "resetVoteCount")
          /\ UNCHANGED gameOver
  /\ UNCHANGED <<users, overlaps, strays>>
  /\ signalled' = Signalled

\* ------------------------------------------------------- specifications
GameKinds == {"vote", "murder", "hunt"} \cup ReadyKinds

\* the events of the lobby
LobbyEvent(one, strict) ==
  \/ \E r \in LobbyRoomIds, rule \in Rules : Create(one, r, rule)
  \/ \E r \in RoomIds : JoinArrive(one, strict, r)
  \/ \E r \in RoomIds : Arrive(one, strict, "choice", r, Nil)
  \/ \E r \in RoomIds, u \in UserIds : Arrive(one, strict, "leave", r, u)

\* the events of the game
GameEvent(one, strict) ==
  \E kind \in GameKinds, r \in RoomIds, u \in UserIds : Arrive(one, strict, kind, r, u)

\* the continuations of the lobby's handlers
LobbyStep ==
  \E t \in Slots :
    \/ JoinStep(t)
    \/ LeaveStep(t)
    \/ ChoiceInit(t)
    \/ ChoiceLoop(t)

\* the continuations of the game's handlers
GameStep ==
  \E t \in Slots :
    \/ GetUserStep(t)
    \/ VoteStep(t)
    \/ HuntStep(t)
    \/ MarkStep(t)
    \/ CheckStep(t)
    \/ AdvanceStart(t)
    \/ AdvanceDiscussion(t)
    \/ ResetRead(t)
    \/ DetachedWrite(t)
    \/ ResetWrite(t)
    \/ ResetWriteVotingResult(t)
    \/ SuspectsRead(t)
    \/ TallyVoting(t)
    \/ Lynch(t)
    \/ TallyNight(t)
    \/ Attack(t)
    \/ JudgeRead(t)
    \/ JudgedVotingResult(t)
    \/ JudgedNight(t)

\* From the empty store: handlers run one at a time (an event arrives when
\* nothing is in flight) and the clients play the game.
Next == LobbyEvent(TRUE, TRUE) \/ GameEvent(TRUE, TRUE) \/ LobbyStep \/ GameStep

Spec == Init /\ [][Next]_vars

GameStart == GameInit(<<WereWolf, "Hunter", Villager>>)

\* From the game about to start: handlers run one at a time; the clients play
\* on when the game is over, with ready signals of any phase.
LooseNext == GameEvent(TRUE, FALSE) \/ GameStep

LooseSpec == GameStart /\ [][LooseNext]_vars

\* From the game about to start: the clients play the game; handlers run
\* concurrently, interleaved at their awaits.
ConcNext == GameEvent(FALSE, TRUE) \/ GameStep

ConcSpec == GameStart /\ [][ConcNext]_vars
\* judge called on a room
JudgeCall(r) ==
  /\ out = {}
  /\ out' = {<<judge(getRoom(r), getUsersInRoom(r)), r>>}
  /\ UNCHANGED <<rooms, users, tasks, gameOver, overlaps, strays>>
  /\ signalled' = Signalled

\* the member lists of the rooms judge is called on
JudgeMembers == {<<"u1", "u2", "u3">>, <<"u2", "u1">>, <<"u3">>}

\* judge on its own: a room of any of the member lists, and of every user any
\* role and either alive flag
JudgeInit ==
  /\ \E ids \in JudgeMembers :
       rooms = [r \in RoomIds |->
                  IF r \notin LobbyRoomIds THEN NilRoomKeys ELSE
                  RoomKeys([NoRoom EXCEPT !.id = r, !.userIds = ids, !.inProgress = TRUE,
                                          !.days = 1, !.phase = Night])]
  /\ \E role \in [LobbyUserIds -> ROLE], alive \in [LobbyUserIds -> BOOLEAN] :
       users = [u \in UserIds |->
                  IF u \notin LobbyUserIds THEN NilUserHash ELSE
                  UserHash([NoUser EXCEPT !.id = u, !.role = role[u], !.isAlive = alive[u]])]
  /\ tasks = [t \in Slots |-> IdleTask]
  /\ out = {}
  /\ gameOver = {}
  /\ overlaps = 0
  /\ strays = 0
  /\ signalled = [r \in RoomIds |-> {}]

JudgeNext == \E r \in LobbyRoomIds : JudgeCall(r)

JudgeSpec == JudgeInit /\ [][JudgeNext]_vars

\* A game of four about to start: the room of GameStart after one more join
\* by u4, with a Rule of a wolf, a hunter and two villagers and a choice that
\* gave u1 the wolf and u2 the hunter.
FourStart ==
  /\ rooms = [r \in RoomIds |->
       IF r = "r1"
       THEN [id |-> "r1", inProgress |-> "false", days |-> 1, phase |-> Start,
             isFinalVoting |-> "false", lastLynched |-> "", lastMurdered |-> "",
             lastHunted |-> "", userIds |-> <<"u1", "u2", "u3", "u4">>,
             rule |-> [ZeroRule EXCEPT !.wereWolves = 1, !.hunters = 1, !.villagers = 2]]
       ELSE NilRoomKeys]
  /\ users = [u \in UserIds |->
       [id |-> u,
        role |-> CASE u = "u1" -> WereWolf [] u = "u2" -> "Hunter" [] OTHER -> Villager,
        isAlive |-> "true", voteCount |-> 0, isAwaiting |-> "false"]]
  /\ tasks = [t \in Slots |-> IdleTask]
  /\ out = {}
  /\ gameOver = {}
  /\ overlaps = 0
  /\ strays = 0
  /\ signalled = [r \in RoomIds |-> {}]

\* From the game of four about to start: handlers run one at a time and the
\* clients play the game.
FourNext == GameEvent(TRUE, TRUE) \/ GameStep

FourSpec == FourStart /\ [][FourNext]_vars

\* an event that need not fit the game, up to its await of getRoom: of any
\* kind, for any room id and any user id, whether in the store or not
StrayKinds == GameKinds \cup {"leave", "choice"}

StrayArrive(kind, r, u) ==
  /\ CanArrive(TRUE)
  /\ strays < MaxStrays
  /\ ~Fits(kind, r, u)
  /\ kind \in {"awaitStart", "awaitNight", "choice"} => rooms[r].days < MaxDays
  /\ tasks' = [tasks EXCEPT ![FreeHandler] =
                 [IdleTask EXCEPT !.kind = kind, !.pc = "gotRoom", !.roomId = r,
                                  !.userId = u, !.room = getRoom(r)]]
  /\ strays' = strays + 1
  /\ signalled' = Signal(kind, r, u)
  /\ out' = {}
  /\ UNCHANGED <<rooms, users, gameOver, overlaps>>

\* The game of GameStart about to start in r1, with or without a second room
\* r2 that its host u4 has just created.
StrayStart ==
  \E other \in BOOLEAN :
    /\ rooms = [r \in RoomIds |->
         IF r = "r1"
         THEN [id |-> "r1", inProgress |-> "false", days |-> 1, phase |-> Start,
               isFinalVoting |-> "false", lastLynched |-> "", lastMurdered |-> "",
               lastHunted |-> "", userIds |-> <<"u2", "u1", "u3">>,
               rule |-> [ZeroRule EXCEPT !.wereWolves = 1, !.hunters = 1, !.villagers = 1]]
         ELSE IF other
              THEN RoomKeys(NewRoom(r, [ZeroRule EXCEPT !.wereWolves = 1, !.villagers = 1], "u4"))
              ELSE NilRoomKeys]
    /\ users = [u \in UserIds |->
         CASE u = "u1" -> UserHash([NewUser(u) EXCEPT !.role = "Hunter"])
           [] u = "u2" -> UserHash([NewUser(u) EXCEPT !.role = Villager])
           [] u = "u3" -> UserHash([NewUser(u) EXCEPT !.role = WereWolf])
           [] OTHER -> IF other THEN UserHash(NewUser(u)) ELSE NilUserHash]
    /\ tasks = [t \in Slots |-> IdleTask]
    /\ out = {}
    /\ gameOver = {}
    /\ overlaps = 0
    /\ strays = 0
    /\ signalled = [r \in RoomIds |-> {}]

\* the events that need not fit the game
StrayEvent ==
  \/ \E kind \in StrayKinds \ {"choice"}, r \in RoomIds, u \in UserIds : StrayArrive(kind, r, u)
  \/ \E r \in RoomIds : StrayArrive("choice", r, Nil)

\* the continuations of the leave and choice handlers
StrayStep ==
  \E t \in Slots :
    \/ LeaveStep(t)
    \/ ChoiceInit(t)
    \/ ChoiceLoop(t)

\* From the game about to start: handlers run one at a time; the clients play
\* the game up to the events that need not fit it, whose handling ends the run.
StrayNext == (strays = 0 /\ GameEvent(TRUE, TRUE)) \/ StrayEvent \/ StrayStep \/ GameStep

StraySpec == StrayStart /\ [][StrayNext]_vars

\* awaitStart or awaitDiscussion once the barrier is complete, when the
\* setRoom of the advance fails.  setRoom does not await exec() and nothing
\* catches its rejection: the handler goes on to its broadcast, or the
\* unhandled rejection has ended the process before it.
AdvanceFail(t) ==
  /\ tasks[t].kind \in {"awaitStart", "awaitDiscussion"} /\ tasks[t].pc = "advance"
  /\ \/ /\ tasks' = FinishDetaching(t, "resetIsAwaiting")
        /\ out' = {<<tasks[t].kind, tasks[t].room.id>>}
     \/ /\ tasks' = [s \in Slots |-> IdleTask]
        /\ out' = {}
  /\ UNCHANGED <<rooms, users, gameOver, overlaps, strays>>
  /\ signalled' = Signalled

\* a detached resetIsAwaiting or resetVoteCount when the setUser of some of
\* the users it read fails: the others are written
DetachedWriteFail(t) ==
  /\ tasks[t].kind \in {"resetIsAwaiting", "resetVoteCount"} /\ tasks[t].pc = "write"
  /\ \E written \in SUBSET tasks[t].us :
       /\ written # tasks[t].us
       /\ users' = setUsers(users, IF tasks[t].kind = "resetIsAwaiting"
                                   THEN resetIsAwaiting(written)
                                   ELSE resetVoteCount(written))
  /\ tasks' = Finish(t)
  /\ out' = {}
  /\ UNCHANGED <<rooms, gameOver, overlaps, strays>>
  /\ signalled' = Signalled

\* the steps in which a store write fails
FailStep ==
  \E t \in Slots :
    \/ AdvanceFail(t)
    \/ DetachedWriteFail(t)

\* From the game about to start: handlers run one at a time, the clients play
\* the game, and the writes of an advance may fail.
FailNext == GameEvent(TRUE, TRUE) \/ GameStep \/ FailStep

FailSpec == GameStart /\ [][FailNext]_vars

\* mapRoom on the reply of HMGET room:<id> for a key that exists: the Rule and
\* the member list are placeholders to be set later
mapRoom(h) ==
  [id |-> h.id,
   rule |-> [ZeroRule EXCEPT !.wereWolves = 1, !.fortuneTellers = 1, !.villagers = 4],
   userIds |-> <<>>,
   inProgress |-> mapStringToBoolean(h.inProgress),
   days |-> h.days,
   phase |-> IF Truthy(h.phase) THEN getPhaseByString(h.phase) ELSE Discussion,
   isFinalVoting |-> mapStringToBoolean(h.isFinalVoting),
   lastLynched |-> h.lastLynched,
   lastMurdered |-> h.lastMurdered,
   lastHunted |-> h.lastHunted]

\* the keys SCAN finds for the three patterns room:*, userIds:*, rule:* (an
\* empty list is no key, and a Rule of no roles stands for the absent hash)
roomKeys == {r \in RoomIds : Truthy(rooms[r].id)}
userIdsKeys == {r \in RoomIds : rooms[r].userIds # <<>>}
ruleKeys == {r \in RoomIds : rooms[r].rule # ZeroRule}

\* the orders in which a SCAN can return the keys S
ScanOrders(S) == {o \in [1..Cardinality(S) -> S] : Range(o) = S}

\* RedisRoomStore.getRooms when the three scans returned their keys in the
\* orders ro, uo and lo: the three reply lists are zipped by position
getRooms(ro, uo, lo) ==
  [i \in 1..Len(ro) |->
     LET room == mapRoom(rooms[ro[i]]) IN
     IF i <= Len(uo) /\ i <= Len(lo)
     THEN [room EXCEPT !.rule = mapRule(rooms[lo[i]].rule),
                       !.userIds = rooms[uo[i]].userIds]
     ELSE room]

\* getRooms called on the store
RoomsCall ==
  /\ out = {}
  /\ \E ro \in ScanOrders(roomKeys), uo \in ScanOrders(userIdsKeys),
        lo \in ScanOrders(ruleKeys) :
       out' = {<<"getRooms", getRooms(ro, uo, lo)>>}
  /\ UNCHANGED <<rooms, users, tasks, gameOver, overlaps, strays>>
  /\ signalled' = Signalled

\* the keys of a room that are left when its keys expire one after the other
\* in the order setRoom set their EXPIRE: userIds, rule, room
Expired(h, n) ==
  CASE n = 0 -> h
    [] n = 1 -> [h EXCEPT !.userIds = <<>>]
    [] n = 2 -> [h EXCEPT !.userIds = <<>>, !.rule = ZeroRule]
    [] OTHER -> NilRoomKeys

\* getRooms on its own: two rooms written by setRoom with different member
\* lists and Rules, each with none, some or all of its keys expired
RoomsInit ==
  /\ \E ids \in JudgeMembers, more \in {<<"u4">>, <<"u3", "u4">>}, rule \in Rules,
        gone \in [RoomIds -> 0..3] :
       rooms = [r \in RoomIds |->
                  Expired(RoomKeys([NoRoom EXCEPT
                                      !.id = r,
                                      !.userIds = IF r = "r1" THEN ids ELSE more,
                                      !.rule = IF r = "r1" THEN rule
                                               ELSE CHOOSE x \in Rules : x # rule,
                                      !.days = 1, !.phase = Night]),
                          gone[r])]
  /\ users = [u \in UserIds |-> UserHash(NewUser(u))]
  /\ tasks = [t \in Slots |-> IdleTask]
  /\ out = {}
  /\ gameOver = {}
  /\ overlaps = 0
  /\ strays = 0
  /\ signalled = [r \in RoomIds |-> {}]

RoomsNext == RoomsCall

RoomsSpec == RoomsInit /\ [][RoomsNext]_vars

\* From the empty store, the lobby only: create, join, leave and choice, with
\* handlers that run concurrently, interleaved at their awaits.
LobbyNext == LobbyEvent(FALSE, TRUE) \/ LobbyStep

LobbySpec == Init /\ [][LobbyNext]_vars

\* From the game about to start: handlers run concurrently, every client
\* sends the ready signal of a phase once, and every continuation of a handler
\* that can run does run: the event loop runs each callback whose promise has
\* settled, while no arrival of an event is ever forced.
OnceEvent ==
  \E kind \in GameKinds, r \in RoomIds, u \in UserIds :
    /\ kind \in ReadyKinds => u \notin signalled[r]
    /\ Arrive(FALSE, TRUE, kind, r, u)

FairNext == OnceEvent \/ GameStep

FairSpec == GameStart /\ [][FairNext]_vars /\ WF_vars(GameStep)

\* getSuspects called on a room
SuspectsCall(r) ==
  /\ out = {}
  /\ out' = {<<"getSuspects", r, getSuspects(getUsersInRoom(r))>>}
  /\ UNCHANGED <<rooms, users, tasks, gameOver, overlaps, strays>>
  /\ signalled' = Signalled

\* the highest vote count of the users getSuspects is called on
MaxVotes == 2

\* getSuspects on its own: a room of any of the member lists; every user is
\* absent from the store, or present with any vote count and either alive flag
SuspectsInit ==
  /\ \E ids \in JudgeMembers :
       rooms = [r \in RoomIds |->
                  IF r \notin LobbyRoomIds THEN NilRoomKeys ELSE
                  RoomKeys([NoRoom EXCEPT !.id = r, !.userIds = ids, !.inProgress = TRUE,
                                          !.days = 1, !.phase = Voting])]
  /\ \E here \in SUBSET LobbyUserIds :
       \E count \in [here -> 0..MaxVotes], alive \in [here -> BOOLEAN] :
         users = [u \in UserIds |->
                    IF u \notin here THEN NilUserHash ELSE
                    UserHash([NoUser EXCEPT !.id = u, !.role = Villager,
                                            !.voteCount = count[u], !.isAlive = alive[u]])]
  /\ tasks = [t \in Slots |-> IdleTask]
  /\ out = {}
  /\ gameOver = {}
  /\ overlaps = 0
  /\ strays = 0
  /\ signalled = [r \in RoomIds |-> {}]

SuspectsNext == \E r \in LobbyRoomIds : SuspectsCall(r)

SuspectsSpec == SuspectsInit /\ [][SuspectsNext]_vars

\* ----------------------------------------------------------- properties
Exists(r) == Truthy(rooms[r].id)

\* the members of the room that hold its highest vote count
Leaders(r) ==
  LET ms == {k \in Members(r) : Truthy(users[k].id)}
  IN {k \in ms : \A j \in ms : users[j].voteCount <= users[k].voteCount}

\* the outcome by the counts of the living members
Verdict(r) ==
  LET wolves == Cardinality(AliveWithRole(r, WereWolf))
      humans == Cardinality(AliveMembers(r)) - wolves
  IN IF wolves = 0 THEN HUMAN_WIN
     ELSE IF wolves >= humans THEN WOLVES_WIN
     ELSE CONTINUE_GAME

AliveSame == \A k \in UserIds : users'[k].isAlive = users[k].isAlive

\* a ready handler that found its barrier complete and has not finished
Advancing(t) ==
  /\ tasks[t].kind \in ReadyKinds
  /\ tasks[t].pc \in {"advance", "resetRead", "resetWrite", "suspects", "tally",
                      "lynch", "attack", "judge", "judged"}

\* C1: under any interleaving of the ready handlers of a room, at most one
\* handler performs the phase advance of a barrier crossing: no two handlers
\* of the room are past a complete barrier check at once.
C1_OneHandlerAdvances ==
  \A t1, t2 \in HandlerSlots :
    (Advancing(t1) /\ Advancing(t2) /\ tasks[t1].roomId = tasks[t2].roomId) => t1 = t2

\* the phase change of a step is one of the game's
PhaseChange(r) ==
  LET p == rooms[r].phase
      q == rooms'[r].phase
      final == rooms[r].isFinalVoting = "true"
  IN \/ p = Start /\ q = Discussion
     \/ p = Discussion /\ q = Voting
     \/ p = Voting /\ q = VotingResult
     \/ p = VotingResult /\ final /\ q = Discussion
     \/ p = VotingResult /\ ~final /\ Verdict(r) = CONTINUE_GAME /\ q = Night
     \/ p = Night /\ Verdict(r) = CONTINUE_GAME /\ q = Discussion

\* C2: with handlers run one at a time and ready signals that match the
\* room's phase, the phase of a room only changes Start -> Discussion,
\* Discussion -> Voting, Voting -> VotingResult, VotingResult -> Discussion
\* in final voting, VotingResult -> Night out of final voting when the judge
\* says continue, and Night -> Discussion when the judge says continue.
C2_PhaseChanges ==
  [][\A r \in RoomIds :
       (Exists(r) /\ rooms'[r].phase # rooms[r].phase) => PhaseChange(r)]_vars

\* C2's case: a Night barrier has just taken a room to Discussion
C2_Witness ==
  \E r \in RoomIds : out = {<<"awaitNight", r>>} /\ rooms[r].phase = Discussion

\* the user store with the awaiting flags of the users S flipped
FlipAwaiting(S) ==
  [k \in UserIds |->
     IF k \in S /\ Truthy(users[k].id)
     THEN [users[k] EXCEPT !.isAwaiting = IF @ = "true" THEN "false" ELSE "true"]
     ELSE users[k]]

\* C3: checkAwaitStatus is true exactly when every living member of the room
\* is awaiting (so also when no member lives), whatever the awaiting flags of
\* the dead members and of the users outside the room.
C3_BarrierComplete ==
  \A r \in RoomIds :
    Exists(r) =>
      /\ checkAwaitStatus(getUsersInRoom(r))
           <=> \A k \in AliveMembers(r) : users[k].isAwaiting = "true"
      /\ \A S \in SUBSET (UserIds \ AliveMembers(r)) :
           checkAwaitStatus(UsersInRoom(FlipAwaiting(S), r))
             = checkAwaitStatus(getUsersInRoom(r))

\* C3's case: a handler found the barrier complete while a dead member of the
\* room had not signalled
C3_Witness ==
  \E r \in RoomIds, t \in HandlerSlots :
    /\ tasks[t].roomId = r
    /\ tasks[t].pc \in {"advance", "resetRead"}
    /\ AliveMembers(r) # {}
    /\ \A k \in AliveMembers(r) : users[k].isAwaiting = "true"
    /\ \E k \in Members(r) \ AliveMembers(r) :
         Truthy(users[k].id) /\ users[k].isAwaiting = "false"

\* the awaitVoting handler of room r takes its step after getSuspects
TallyStep(r) ==
  \E t \in HandlerSlots :
    /\ tasks[t].kind = "awaitVoting" /\ tasks[t].pc = "tally" /\ tasks[t].roomId = r
    /\ tasks'[t] # tasks[t]

\* the resetVoteCount a handler of room r started writes the counters back
ResetVoteCountStep(r) ==
  \E d \in DetachedSlots :
    /\ tasks[d].kind = "resetVoteCount" /\ tasks[d].pc = "write" /\ tasks[d].roomId = r
    /\ tasks'[d] # tasks[d]

ResetVoteCountStarted == \E d \in DetachedSlots : tasks'[d].kind = "resetVoteCount"

VotesReset(r) == \A k \in Members(r) : users'[k].voteCount = 0

FirstTie(r) ==
  TallyStep(r) /\ Cardinality(Leaders(r)) # 1 /\ rooms[r].isFinalVoting = "false"

\* C4 as stated: at a first tie of the Voting barrier isFinalVoting becomes
\* true, no member is marked not-alive, and the room's phase becomes Voting
\* again.
C4_FirstTieReturnsToVoting ==
  [][\A r \in RoomIds :
       FirstTie(r) =>
         /\ rooms'[r].isFinalVoting = "true"
         /\ AliveSame
         /\ rooms'[r].phase = Voting]_vars

\* C4: at a first tie of the Voting barrier isFinalVoting becomes true, no
\* member is marked not-alive and the phase becomes VotingResult; the vote
\* counters of all members are then reset to 0; from VotingResult in final
\* voting the room goes to Discussion and from there to Voting, still in
\* final voting: the vote is replayed by way of VotingResult and Discussion.
C4_FirstTie ==
  [][\A r \in RoomIds :
       /\ FirstTie(r) =>
            /\ rooms'[r].isFinalVoting = "true"
            /\ AliveSame
            /\ rooms'[r].phase = VotingResult
            /\ out' = {<<"awaitVoting", r>>}
            /\ ResetVoteCountStarted
       /\ (/\ ResetVoteCountStep(r)
           /\ rooms[r].phase = VotingResult
           /\ rooms[r].isFinalVoting = "true") => VotesReset(r) /\ AliveSame
       /\ (/\ rooms[r].phase \in {VotingResult, Discussion}
           /\ rooms[r].isFinalVoting = "true"
           /\ rooms'[r].phase # rooms[r].phase) =>
            /\ rooms'[r].isFinalVoting = "true"
            /\ rooms'[r].days = rooms[r].days
            /\ AliveSame
            /\ \/ rooms[r].phase = VotingResult /\ rooms'[r].phase = Discussion
               \/ rooms[r].phase = Discussion /\ rooms'[r].phase = Voting]_vars

\* C4's case: the Voting barrier has just ended in a first tie
C4_Witness ==
  \E r \in RoomIds :
    /\ out = {<<"awaitVoting", r>>}
    /\ rooms[r].isFinalVoting = "true"
    /\ rooms[r].phase = VotingResult
    /\ Cardinality(Leaders(r)) # 1

SecondTie(r) ==
  TallyStep(r) /\ Cardinality(Leaders(r)) # 1 /\ rooms[r].isFinalVoting = "true"

\* C5: at a tie of the Voting barrier in final voting isFinalVoting becomes
\* false, no alive flag changes, lastLynched stays none and the phase becomes
\* VotingResult; the vote counters of all members are then reset to 0; the
\* next phase change of the room is to Night.
C5_SecondTie ==
  [][\A r \in RoomIds :
       /\ SecondTie(r) =>
            /\ rooms'[r].isFinalVoting = "false"
            /\ AliveSame
            /\ rooms'[r].lastLynched = ""
            /\ rooms'[r].phase = VotingResult
            /\ out' = {<<"awaitVoting", r>>}
            /\ ResetVoteCountStarted
       /\ (/\ ResetVoteCountStep(r)
           /\ rooms[r].phase = VotingResult
           /\ rooms[r].isFinalVoting = "false"
           /\ rooms[r].lastLynched = "") => VotesReset(r) /\ AliveSame
       /\ (/\ rooms[r].phase = VotingResult
           /\ rooms[r].isFinalVoting = "false"
           /\ rooms[r].lastLynched = ""
           /\ rooms'[r].phase # rooms[r].phase) => rooms'[r].phase = Night]_vars

\* C5's case: the Voting barrier of a final voting has just ended in a tie
C5_Witness ==
  \E r \in RoomIds :
    /\ out = {<<"awaitVoting", r>>}
    /\ rooms[r].isFinalVoting = "false"
    /\ rooms[r].lastLynched = ""
    /\ rooms[r].phase = VotingResult
    /\ Cardinality(Leaders(r)) # 1

\* the awaitVoting handler of room r takes its step after getUser of the suspect
LynchStep(r) ==
  \E t \in HandlerSlots :
    /\ tasks[t].kind = "awaitVoting" /\ tasks[t].pc = "lynch" /\ tasks[t].roomId = r
    /\ tasks'[t] # tasks[t]

\* C6: when the Voting barrier completes with exactly one leader, the handler
\* goes on to the lynch, which marks that member and no other not-alive, sets
\* lastLynched to its id, clears isFinalVoting and makes the phase
\* VotingResult; the vote counters of all members are then reset to 0.
C6_UniqueLeader ==
  [][\A r \in RoomIds :
       /\ (TallyStep(r) /\ Cardinality(Leaders(r)) = 1) =>
            /\ \E t \in HandlerSlots :
                 /\ tasks[t].kind = "awaitVoting" /\ tasks[t].roomId = r
                 /\ tasks'[t].kind = "awaitVoting" /\ tasks'[t].pc = "lynch"
                 /\ tasks'[t].suspects = Leaders(r)
            /\ UNCHANGED <<rooms, users>>
       /\ LynchStep(r) =>
            \E s \in Members(r) :
              /\ Leaders(r) = {s}
              /\ users'[s].isAlive = "false"
              /\ \A k \in UserIds \ {s} : users'[k].isAlive = users[k].isAlive
              /\ rooms'[r].lastLynched = s
              /\ rooms'[r].isFinalVoting = "false"
              /\ rooms'[r].phase = VotingResult
              /\ out' = {<<"awaitVoting", r>>}
              /\ ResetVoteCountStarted
       /\ (/\ ResetVoteCountStep(r)
           /\ rooms[r].phase = VotingResult
           /\ Truthy(rooms[r].lastLynched)) => VotesReset(r) /\ AliveSame]_vars

\* C6's case: the Voting barrier has just lynched its single leader
C6_Witness ==
  \E r \in RoomIds, s \in UserIds :
    /\ out = {<<"awaitVoting", r>>}
    /\ rooms[r].lastLynched = s
    /\ users[s].isAlive = "false"
    /\ Leaders(r) = {s}
    /\ rooms[r].phase = VotingResult

\* C7: when the hunt of a member P was processed before the Night barrier
\* completed (the store's lastHunted was P at the barrier check) and P is the
\* single leader of the attack votes, the attack step leaves P alive and
\* lastMurdered as it was, however the handlers interleave.
C7_ProtectedSurvives ==
  [][\A t \in HandlerSlots :
       (/\ tasks[t].kind = "awaitNight" /\ tasks[t].pc = "attack"
        /\ tasks'[t] # tasks[t]
        /\ Truthy(tasks[t].prot)
        /\ tasks[t].suspects = {tasks[t].prot}) =>
         /\ users'[tasks[t].prot].isAlive = users[tasks[t].prot].isAlive
         /\ rooms'[tasks[t].roomId].lastMurdered = rooms[tasks[t].roomId].lastMurdered]_vars

\* C8: when the Night barrier completes and the attack votes do not have
\* exactly one leader, the handler goes from the tally to the judge without
\* an attack, and its steps up to its end change no alive flag, leave
\* lastMurdered none and isFinalVoting false, and take the room to Discussion.
C8_TiedAttackFails ==
  [][\A r \in RoomIds, t \in HandlerSlots :
       (/\ tasks[t].kind = "awaitNight" /\ tasks[t].roomId = r
        /\ tasks'[t] # tasks[t]) =>
         /\ (tasks[t].pc = "tally" /\ Cardinality(Leaders(r)) # 1) =>
              /\ tasks'[t].pc = "judge"
              /\ tasks'[t].suspects = Leaders(r)
              /\ UNCHANGED <<rooms, users>>
         /\ (tasks[t].pc = "judge" /\ Cardinality(tasks[t].suspects) # 1) =>
              UNCHANGED <<rooms, users>>
         /\ (tasks[t].pc = "judged" /\ Cardinality(tasks[t].suspects) # 1) =>
              /\ AliveSame
              /\ rooms'[r].lastMurdered = ""
              /\ rooms'[r].isFinalVoting = "false"
              /\ rooms'[r].phase = Discussion
              /\ out' = {<<"awaitNight", r>>}]_vars

\* C8's case: a Night barrier without a single leader has just ended
C8_Witness ==
  \E r \in RoomIds :
    /\ out = {<<"awaitNight", r>>}
    /\ Cardinality(Leaders(r)) # 1
    /\ rooms[r].lastMurdered = ""
    /\ rooms[r].phase = Discussion

\* C9: for every assignment of roles and alive flags to the users, judge
\* returns human-win when no living member of the room is a WereWolf,
\* otherwise wolf-win when the living WereWolf members are at least as many
\* as the other living members, otherwise continue.
C9_Judge ==
  \A r \in RoomIds :
    \A m \in out :
      (m[2] = r /\ m[1] \in {HUMAN_WIN, WOLVES_WIN, CONTINUE_GAME}) => m[1] = Verdict(r)

\* C9's case: judge returned wolf-win on equal counts of the living, with a
\* dead member that is not a WereWolf in the room
C9_Witness ==
  \E r \in RoomIds :
    /\ out = {<<WOLVES_WIN, r>>}
    /\ Cardinality(AliveWithRole(r, WereWolf)) * 2 = Cardinality(AliveMembers(r))
    /\ \E k \in Members(r) \ AliveMembers(r) : users[k].role # WereWolf

\* C10: once a gameSet message was emitted for a room, no step changes the
\* room's phase or emits a phase broadcast for it.
C10_NoAdvanceAfterGameSet ==
  [][\A r \in gameOver :
       /\ rooms'[r].phase = rooms[r].phase
       /\ \A kind \in ReadyKinds : <<kind, r>> \notin out']_vars

\* a ready handler of room r for the phase the room is in, started after that
\* phase was written
NextCycle(t, r) ==
  /\ tasks[t].roomId = r
  /\ tasks[t].kind = ReadyKindOf(rooms[r].phase)
  /\ tasks[t].room.phase = rooms[r].phase

\* C11: a ready signal of the room's new phase that is processed while the
\* resetIsAwaiting of the advance into that phase is still pending is not
\* taken as completing a barrier, and the flag it has set is still set after
\* the reset's writes.
C11_LateSignalCounts ==
  [][\A r \in RoomIds, t \in HandlerSlots :
       (ResetPending(r) /\ NextCycle(t, r) /\ tasks[t].pc = "check") =>
         /\ ~Advancing(t)'
         /\ tasks[t].user # NoUser => users'[tasks[t].userId].isAwaiting = "true"]_vars

\* C13: getSuspects returns exactly the members of the room, living and dead
\* alike, whose vote count is the highest of the members' counts: one of them
\* when one holds it, all of the tied ones otherwise, and none when the room
\* has no member in the store.
C13_GetSuspects ==
  \A r \in RoomIds, S \in SUBSET UserIds :
    out = {<<"getSuspects", r, S>>} =>
      /\ S = Leaders(r)
      /\ S = {} <=> \A k \in Members(r) : ~Truthy(users[k].id)
      /\ \A k \in S : \A j \in S \ {k} : users[j].voteCount = users[k].voteCount

\* getSuspects returned a tie of a dead and a living member while a user who
\* is not a member holds more votes
C13_Witness ==
  \E r \in RoomIds, S \in SUBSET UserIds :
    /\ out = {<<"getSuspects", r, S>>}
    /\ \E k \in S, j \in S : users[k].isAlive = "false" /\ users[j].isAlive = "true"
    /\ \E n \in UserIds \ Members(r) :
         \A k \in S : Truthy(users[n].id) /\ users[n].voteCount > users[k].voteCount

\* the handler t of choice ends its assignment loop
ChoiceDone(t) ==
  /\ tasks[t].kind = "choice"
  /\ tasks[t].pc = "loop"
  /\ tasks'[t].pc # "loop"

\* the members at the first n places of ids whose stored role is role
Holding(us, ids, n, role) == {i \in 1..n : i <= Len(ids) /\ us[ids[i]].role = role}

\* C14: role assignment gives the members, in the order of the member list,
\* the roles of a permutation of the Rule's role multiset: no role is held by
\* more members than the Rule counts, by exactly as many when the multiset is
\* not longer than the member list, and the members beyond the multiset's
\* length, and only they, are left without a role.
C14_RolesAssigned ==
  [][\A t \in HandlerSlots :
       ChoiceDone(t) =>
         LET ids == tasks[t].room.userIds
             rule == tasks[t].room.rule
             m == Len(Choices(rule, 1))
         IN /\ \A role \in ROLE :
                 LET held == Cardinality(Holding(users', ids, m, role))
                 IN /\ held <= RuleCount(rule, role)
                    /\ m <= Len(ids) => held = RuleCount(rule, role)
            /\ \A i \in 1..Len(ids) : i > m <=> users'[ids[i]].role = ""]_vars

\* choice has ended in a room of three members whose Rule counts two roles:
\* one member is without a role, and the wolf is not the first of the list
C14_Witness ==
  \E r \in RoomIds :
    /\ out = {<<"choice", r>>}
    /\ Len(rooms[r].userIds) = 3
    /\ Len(Choices(getRoom(r).rule, 1)) = 2
    /\ \E k \in Members(r) : users[k].role = ""
    /\ users[rooms[r].userIds[3]].role = Villager

\* the step ends a role assignment of room r, or advances it from Start or
\* from Night to Discussion
NewDay(r) ==
  \/ \E t \in HandlerSlots : ChoiceDone(t) /\ tasks[t].roomId = r
  \/ rooms[r].phase \in {Start, Night} /\ rooms'[r].phase = Discussion

\* C15: the day counter of a room grows by exactly 1 when a role assignment
\* ends and when the room advances from Start or from Night to Discussion,
\* and no other step changes it.
C15_Days ==
  [][\A r \in RoomIds :
       Exists(r) =>
         rooms'[r].days = IF NewDay(r) THEN rooms[r].days + 1 ELSE rooms[r].days]_vars

\* the third day has begun: role assignment, the Start advance and a Night
\* advance have each counted one
C15_Witness ==
  \E r \in RoomIds :
    /\ rooms[r].phase = Discussion
    /\ rooms[r].days = 3
    /\ rooms[r].inProgress = "true"
    /\ out = {<<"awaitNight", r>>}

\* lastLynched and lastMurdered of the room record are none
NoneLast(room) == ~Truthy(room.lastLynched) /\ ~Truthy(room.lastMurdered)

\* C16 as stated: whenever a room enters Discussion, from Start, from
\* VotingResult or from Night, its lastLynched and lastMurdered are none.
C16_NoneOnEntering ==
  [][\A r \in RoomIds :
       (Exists(r) /\ rooms[r].phase # Discussion /\ rooms'[r].phase = Discussion)
         => NoneLast(rooms'[r])]_vars

\* C16 amended: lastLynched and lastMurdered are none when a room leaves
\* Discussion for Voting, and so when it enters Discussion from Start or from
\* VotingResult; the advance from Night to Discussion leaves both as they
\* are, and they name only members who are dead.
C16_NoneOnLeaving ==
  [][\A r \in RoomIds :
       Exists(r) =>
         /\ (rooms[r].phase = Discussion /\ rooms'[r].phase = Voting)
              => NoneLast(rooms'[r])
         /\ (rooms[r].phase \in {Start, VotingResult} /\ rooms'[r].phase = Discussion)
              => NoneLast(rooms'[r])
         /\ (rooms[r].phase = Night /\ rooms'[r].phase = Discussion)
              => /\ rooms'[r].lastLynched = rooms[r].lastLynched
                 /\ rooms'[r].lastMurdered = rooms[r].lastMurdered
                 /\ \A k \in Members(r) :
                      k \in {rooms'[r].lastLynched, rooms'[r].lastMurdered}
                        => users'[k].isAlive = "false"]_vars

\* a room has entered Discussion from Night with the night's victim in
\* lastMurdered
C16_Witness ==
  \E r \in RoomIds :
    /\ out = {<<"awaitNight", r>>}
    /\ rooms[r].phase = Discussion
    /\ rooms[r].lastMurdered \in Members(r)

\* a vote or murder handler that found the user k it names writes in this step
VoteNaming(k) ==
  \E t \in HandlerSlots :
    /\ tasks[t].kind \in {"vote", "murder"} /\ tasks[t].pc = "gotUser"
    /\ tasks[t].userId = k /\ tasks[t].user # NoUser
    /\ tasks'[t] # tasks[t]

\* C17: between two vote resets a member's vote counter is the number of vote
\* and attack events processed that named the member, under every
\* interleaving: a step of a vote or attack handler that names a user adds
\* exactly 1 to the stored counter of that user, and no step other than the
\* write of a vote reset changes a counter otherwise.
C17_VotesCounted ==
  [][\A r \in RoomIds :
       ~ResetVoteCountStep(r) =>
         \A k \in Members(r) :
           users'[k].voteCount = users[k].voteCount + IF VoteNaming(k) THEN 1 ELSE 0]_vars

\* a task of an event addressed to room r takes the step
StepOf(r) == \E t \in Slots : tasks[t].roomId = r /\ tasks'[t] # tasks[t]

\* C12: an event addressed to a room, whatever user id it carries, changes
\* nothing of another room: that room's record and the User records of its
\* members are the same before and after every step of the event's handler.
C12_OtherRoomUnchanged ==
  [][\A a \in RoomIds, b \in RoomIds :
       (a # b /\ StepOf(a) /\ Exists(b)) =>
         /\ rooms'[b] = rooms[b]
         /\ \A k \in Members(b) : users'[k] = users[k]]_vars

\* the handler t takes a step of an event that names a room or a user absent
\* from the store
AbsentStep(t) ==
  /\ tasks'[t] # tasks[t]
  /\ tasks[t].kind \in StrayKinds
  /\ tasks[t].pc # "idle"
  /\ \/ tasks[t].room = NoRoom
     \/ tasks[t].userId # Nil /\ ~Truthy(users[tasks[t].userId].id)

\* C18: an event that names a room id or a user id absent from the store is
\* dropped: no step of its handler changes a Room or a User record or emits a
\* message.
C18_AbsentDropped ==
  [][\A t \in HandlerSlots :
       AbsentStep(t) => rooms' = rooms /\ users' = users /\ out' = {}]_vars

\* the handler t takes a step of a ready signal that is not of the phase its
\* room is in, or whose room's game has ended
OutOfPhaseStep(t) ==
  /\ tasks'[t] # tasks[t]
  /\ tasks[t].kind \in ReadyKinds
  /\ tasks[t].room # NoRoom
  /\ \/ tasks[t].kind # ReadyKindOf(tasks[t].room.phase)
     \/ tasks[t].roomId \in gameOver

\* C19: a ready signal for a phase the room is not in, or for a room whose
\* game has ended, is a no-op: no step of its handler changes a Room or a User
\* record or emits a message.
C19_OutOfPhaseNoOp ==
  [][\A t \in HandlerSlots :
       OutOfPhaseStep(t) => rooms' = rooms /\ users' = users /\ out' = {}]_vars

\* the awaiting flags of the members of r are all as before the step, or all
\* reset
FlagsWhole(r) ==
  \/ \A k \in Members(r) : users'[k].isAwaiting = users[k].isAwaiting
  \/ \A k \in Members(r) : users'[k].isAwaiting = "false"

\* C20: when a store write of a phase advance fails the advance is aborted
\* without partial effect: the step leaves the room's phase unchanged and the
\* members' awaiting flags as they were, and emits no broadcast, so that the
\* barrier is still complete for the next ready signal.
C20_FailedAdvanceAborts ==
  [][\A t \in Slots :
       (AdvanceFail(t) \/ DetachedWriteFail(t)) =>
         LET r == tasks[t].roomId
         IN /\ rooms'[r].phase = rooms[r].phase
            /\ FlagsWhole(r)
            /\ out' = {}]_vars

\* C21: setRoom of a Room followed by getRoom of its id returns the member
\* ids in the same order: for the Room getRoom returns for a stored room, the
\* list setRoom stores (which is the list the next getRoom returns) equals the
\* Room's list.
C21_RoundTrip ==
  \A r \in RoomIds :
    Exists(r) => setRoom(rooms, getRoom(r))[r].userIds = getRoom(r).userIds

\* C22: getRooms returns no malformed Room: every Room of the list it returns
\* has its member list and its Rule in the store and carries them, and no Room
\* is returned twice.
C22_NoMalformedRoom ==
  \A m \in out :
    m[1] = "getRooms" =>
      \A i \in 1..Len(m[2]) :
        LET room == m[2][i] IN
        /\ room.id \in userIdsKeys \cap ruleKeys
        /\ room.userIds = rooms[room.id].userIds
        /\ room.rule = mapRule(rooms[room.id].rule)

\* C23: under every interleaving of the handlers, a user whose stored alive
\* flag is false has it false after every step.
C23_DeadStaysDead ==
  [][\A k \in UserIds :
       users[k].isAlive = "false" => users'[k].isAlive = "false"]_vars

\* the leave handler for user k takes its step
LeaveOf(k) ==
  \E t \in HandlerSlots :
    tasks[t].kind = "leave" /\ tasks[t].userId = k /\ tasks'[t] # tasks[t]

\* C24: under every interleaving of the lobby's handlers, a user in a room's
\* stored member list (every acknowledged join puts the user there) is in the
\* list after every step but the leave for that user, and the list holds no id
\* twice.
C24_JoinsKept ==
  [][\A r \in RoomIds :
       /\ \A k \in Members(r) : k \in Range(rooms'[r].userIds) \/ LeaveOf(k)
       /\ Cardinality(Range(rooms'[r].userIds)) = Len(rooms'[r].userIds)]_vars
\* every living member of the room has sent the ready signal of its phase
AllSignalled(r) ==
  /\ r \notin gameOver
  /\ AliveMembers(r) # {}
  /\ AliveMembers(r) \subseteq signalled[r]

\* C25: when every living member of a room has sent the ready signal of the
\* room's phase once, the barrier eventually completes: the stored phase is
\* written anew or the game is set; the room does not stay in the phase forever.
C25_BarrierCompletes ==
  \A r \in LobbyRoomIds : AllSignalled(r) ~> (signalled[r] = {} \/ r \in gameOver)

\* the part of a stored Room that the phase advances write
Progress(h) == <<h.phase, h.days, h.inProgress, h.isFinalVoting, h.lastLynched, h.lastMurdered>>

\* C26: join, leave and hunt (designateProtected) never change a room's phase,
\* day counter, in-progress flag, final-voting flag, lastLynched or
\* lastMurdered: every step of their handlers leaves these as they are stored,
\* also when a phase advance of the room was written since the handler read it.
C26_NonReadyKeepProgress ==
  [][\A t \in HandlerSlots :
       (tasks[t].kind \in {"join", "leave", "hunt"} /\ tasks'[t] # tasks[t]) =>
         Progress(rooms'[tasks[t].roomId]) = Progress(rooms[tasks[t].roomId])]_vars
====
